---------------------------- MODULE Spec2Model ----------------------------
(***************************************************************************)
(* contigious-tree: a tree is serialized depth first into one contiguous   *)
(* block of bytes by TreeBuilder::write_node and read back in place by     *)
(* TreeSlice::read_node and the Branches iterator.                         *)
(*                                                                         *)
(* Byte ranges are modelled as [lo, hi) offsets into the buffer they       *)
(* borrow from; usize and u64 values are little-endian digit sequences     *)
(* (base 256), so that wrapping arithmetic keeps its width.                *)
(***************************************************************************)
EXTENDS Integers, Sequences, FiniteSets, TLC

VARIABLES
    build,            \* how the crate was compiled: overflow checks, width of usize
    codec,            \* the Node implementation N: "U8" or "LeI32"
    writer,           \* TreeBuilder.writer: the bytes the sink holds
    open_node_sizes,  \* TreeBuilder.open_node_sizes
    call,             \* the latest write_node call: its arguments and how it ended
    forest,           \* the subtrees the caller has written and not yet attached,
                      \* each with the sink offsets its calls covered
    faults,           \* number of writes the sink has rejected so far
    tree,             \* TreeVec.bytes, or None before TreeVec::new
    slice,            \* the &TreeSlice the reader holds, as a range of tree
    branches,         \* the Branches iterator of each reader (its bytes field)
    origin,           \* the slice each reader's iterator was obtained from
    yielded,          \* the child views each reader's iterator has returned so far
    value,            \* the value the latest read_node returned
    item,             \* what the latest Branches::next returned
    reader            \* "ok", or "panic" once a read_node or next call has panicked

vars == <<build, codec, writer, open_node_sizes, call, forest, faults,
          tree, slice, branches, origin, yielded, value, item, reader>>

builderVars == <<writer, open_node_sizes, call, forest, faults>>
readerVars == <<tree, slice, branches, origin, yielded, value, item, reader>>

-----------------------------------------------------------------------------
(* Bounds of the model *)

\* write_node calls per run
MaxNodes == 3
\* how far num_children may exceed the number of open subtrees
MaxExcess == 1
\* writes the sink may reject per run
MaxFaults == 1
\* pieces (single bytes, 8 byte words) a byte vector not written by the builder is made of
MaxPieces == 3
\* child views one Branches iterator is followed through
MaxItems == 3
\* children of the root of a tree that two readers share
MaxChildren == 2

-----------------------------------------------------------------------------
(* Program constants *)

\* const TREE_SIZE_SIZE: usize = size_of::<TreeSize>()
TREE_SIZE_SIZE == 8

\* size of the value the U8 codec writes
U8Size == 1

\* size of the value the LeI32 codec writes
LeI32Size == 4

-----------------------------------------------------------------------------
(* Little-endian integers *)

RECURSIVE to_le_bytes(_, _)
\* n.to_le_bytes() of an integer of w bytes (two's complement for negative n)
to_le_bytes(n, w) ==
    IF w = 0 THEN <<>>
    ELSE <<n % 256>> \o to_le_bytes(n \div 256, w - 1)

RECURSIVE Horner(_, _, _)
\* acc * 256^i + the value of the digits d[1..i]
Horner(d, acc, i) ==
    IF i = 0 THEN acc ELSE Horner(d, acc * 256 + d[i], i - 1)

\* T::from_le_bytes: the top digit carries the sign of a signed type
from_le_bytes(d, signed) ==
    LET w == Len(d)
        top == IF signed /\ d[w] >= 128 THEN d[w] - 256 ELSE d[w]
    IN  Horner(d, top, w - 1)

(* usize values are words: little-endian digit sequences of the width of   *)
(* usize, so that a value near 2^64 is representable and a subtraction     *)
(* wraps as the machine's does.                                            *)

\* a small natural number as a usize
Word(n) == to_le_bytes(n, build.usize_bytes)

\* TreeSize as usize: keeps the low digits that fit into usize
as_usize(d) == SubSeq(d, 1, build.usize_bytes)

\* whether a word is below 2^24, as every length of the model is
IsSmall(wd) == \A i \in 4..Len(wd) : wd[i] = 0

\* the value of a small word
SmallOf(wd) == Horner(wd, 0, 3)

\* wd <= n for a small natural n
WordLeq(wd, n) == IsSmall(wd) /\ SmallOf(wd) <= n

RECURSIVE SubDigits(_, _, _)
\* a - b - borrow, digit by digit: the wrapped difference and the final borrow
SubDigits(a, b, borrow) ==
    IF a = <<>> THEN [val |-> <<>>, borrow |-> borrow]
    ELSE LET x == Head(a) - Head(b) - borrow
             r == SubDigits(Tail(a), Tail(b), IF x < 0 THEN 1 ELSE 0)
         IN  [val |-> <<x % 256>> \o r.val, borrow |-> r.borrow]

\* a - b on usize: panics when overflow checks are compiled in and a < b, wraps otherwise
usize_sub(a, b) ==
    LET r == SubDigits(a, b, 0)
    IN  [panic |-> build.overflow_checks /\ r.borrow = 1, val |-> r.val]

-----------------------------------------------------------------------------
(* Byte ranges: a slice &[u8] borrowed from a buffer is the range [lo, hi) *)

None == [none |-> TRUE]
Some(x) == [none |-> FALSE, some |-> x]
\* no call made yet, hence nothing returned
Unset == [none |-> TRUE, unset |-> TRUE]

Range(lo, hi) == [lo |-> lo, hi |-> hi]
LenOf(s) == s.hi - s.lo

\* the bytes a range covers
BytesOf(buf, s) == SubSeq(buf, s.lo + 1, s.hi)

\* &s[..n]: panics when n > s.len()
slice_to(s, n) ==
    IF WordLeq(n, LenOf(s))
    THEN [panic |-> FALSE, val |-> Range(s.lo, s.lo + SmallOf(n))]
    ELSE [panic |-> TRUE]

\* &s[a..]: panics when a > s.len()
slice_from(s, a) ==
    IF WordLeq(a, LenOf(s))
    THEN [panic |-> FALSE, val |-> Range(s.lo + SmallOf(a), s.hi)]
    ELSE [panic |-> TRUE]

\* split_at without its bounds check, as split_at_unchecked is
split_at_unchecked(s, mid) ==
    [panic |-> FALSE,
     left |-> Range(s.lo, s.lo + SmallOf(mid)),
     right |-> Range(s.lo + SmallOf(mid), s.hi)]

\* s.split_at(mid): panics when mid > s.len()
split_at(s, mid) ==
    IF WordLeq(mid, LenOf(s))
    THEN [panic |-> FALSE,
          left |-> Range(s.lo, s.lo + SmallOf(mid)),
          right |-> Range(s.lo + SmallOf(mid), s.hi)]
    ELSE [panic |-> TRUE]

-----------------------------------------------------------------------------
(* The Node implementations of the crate: U8 and LeI32 *)

Codecs == {"U8", "LeI32"}

\* the values the model writes with each codec
Values(c) == IF c = "U8" THEN {1, 2} ELSE {42, -2}

RECURSIVE to_be_bytes(_, _)
to_be_bytes(n, w) ==
    IF w = 0 THEN <<>>
    ELSE to_be_bytes(n \div 256, w - 1) \o <<n % 256>>

\* write_value writing the value in big-endian byte order
write_value_be(c, v) ==
    IF c = "U8" THEN to_be_bytes(v, U8Size) ELSE to_be_bytes(v, LeI32Size)

\* Node::write_value: the bytes handed to the writer; Ok(bytes.len()) is their number
write_value(c, v) ==
    IF c = "U8" THEN to_le_bytes(v, U8Size) ELSE to_le_bytes(v, LeI32Size)

\* Node::read_value(bytes): reads the value from the back of the range s of buf;
\* touched is the range of the bytes it reads
read_value(c, buf, s) ==
    LET n == IF c = "U8" THEN U8Size ELSE LeI32Size
        total_len == Word(LenOf(s))
        start == usize_sub(total_len, Word(n))
        last == IF start.panic THEN [panic |-> TRUE] ELSE slice_from(s, start.val)
    IN  IF last.panic THEN [panic |-> TRUE]
        ELSE [panic |-> FALSE,
              size |-> n,
              value |-> from_le_bytes(BytesOf(buf, last.val), c = "LeI32"),
              touched |-> last.val]

-----------------------------------------------------------------------------
(* TreeBuilder *)

NoCall == [n |-> 0, result |-> "none"]

RECURSIVE Sum(_)
\* Iterator::sum over the drained sizes
Sum(s) == IF s = <<>> THEN 0 ELSE Head(s) + Sum(Tail(s))

\* write_all on a sink that writes from its start again instead of appending
write_all_from_start(sink, data, accept) ==
    [sink |-> SubSeq(data, 1, accept), ok |-> accept >= Len(data)]

\* Write::write_all on a sink that takes the first `accept` bytes of data: Ok when it
\* takes them all, an io::Error otherwise, the bytes it took staying in the sink
write_all(sink, data, accept) ==
    [sink |-> sink \o SubSeq(data, 1, accept), ok |-> accept >= Len(data)]

\* a drain that clamps its start to the length instead of panicking
drain_clamped(sizes, start) ==
    IF WordLeq(start, Len(sizes))
    THEN [panic |-> FALSE,
          kept |-> SubSeq(sizes, 1, SmallOf(start)),
          drained |-> SubSeq(sizes, SmallOf(start) + 1, Len(sizes))]
    ELSE [panic |-> FALSE, kept |-> sizes, drained |-> <<>>]

\* a drain of the range ..start instead of start..: it removes the front of the vector
drain_to(sizes, start) ==
    IF WordLeq(start, Len(sizes))
    THEN [panic |-> FALSE,
          kept |-> SubSeq(sizes, SmallOf(start) + 1, Len(sizes)),
          drained |-> SubSeq(sizes, 1, SmallOf(start))]
    ELSE [panic |-> TRUE]

\* Vec::drain(start..): panics when start > len; the elements kept and those drained
drain(sizes, start) ==
    IF WordLeq(start, Len(sizes))
    THEN [panic |-> FALSE,
          kept |-> SubSeq(sizes, 1, SmallOf(start)),
          drained |-> SubSeq(sizes, SmallOf(start) + 1, Len(sizes))]
    ELSE [panic |-> TRUE]

\* write_node pushing total_size without the 8 bytes of the trailer itself
write_node_push_without_trailer(w, sizes, v, num_children, accept1, accept2) ==
    LET w1 == write_all(w, write_value(codec, v), accept1)
        size_value == Len(write_value(codec, v))
        start == usize_sub(Word(Len(sizes)), Word(num_children))
        d == IF start.panic THEN [panic |-> TRUE] ELSE drain(sizes, start.val)
        size_children == Sum(d.drained)
        total_size == size_value + size_children
        w2 == write_all(w1.sink, to_le_bytes(total_size, TREE_SIZE_SIZE), accept2)
    IN  IF ~w1.ok
        THEN [writer |-> w1.sink, open_node_sizes |-> sizes, result |-> "Err", at |-> "value"]
        ELSE IF d.panic
        THEN [writer |-> w1.sink, open_node_sizes |-> sizes, result |-> "panic", at |-> "drain"]
        ELSE IF ~w2.ok
        THEN [writer |-> w2.sink, open_node_sizes |-> d.kept, result |-> "Err", at |-> "trailer"]
        ELSE [writer |-> w2.sink,
              open_node_sizes |-> Append(d.kept, total_size),
              result |-> "Ok", at |-> "end"]

\* write_node dropping the result of the trailer's write_all instead of returning it
write_node_ignoring_trailer_error(w, sizes, v, num_children, accept1, accept2) ==
    LET w1 == write_all(w, write_value(codec, v), accept1)
        size_value == Len(write_value(codec, v))
        start == usize_sub(Word(Len(sizes)), Word(num_children))
        d == IF start.panic THEN [panic |-> TRUE] ELSE drain(sizes, start.val)
        size_children == Sum(d.drained)
        total_size == size_value + size_children
        w2 == write_all(w1.sink, to_le_bytes(total_size, TREE_SIZE_SIZE), accept2)
    IN  IF ~w1.ok
        THEN [writer |-> w1.sink, open_node_sizes |-> sizes, result |-> "Err", at |-> "value"]
        ELSE IF d.panic
        THEN [writer |-> w1.sink, open_node_sizes |-> sizes, result |-> "panic", at |-> "drain"]
        ELSE [writer |-> w2.sink,
              open_node_sizes |-> Append(d.kept, total_size + TREE_SIZE_SIZE),
              result |-> "Ok", at |-> "end"]

\* a write_node that drains every open size, whatever num_children is
write_node_draining_all(w, sizes, v, num_children, accept1, accept2) ==
    LET w1 == write_all(w, write_value(codec, v), accept1)
        size_value == Len(write_value(codec, v))
        start == usize_sub(Word(Len(sizes)), Word(num_children))
        d == IF start.panic THEN [panic |-> TRUE] ELSE drain(sizes, Word(0))
        size_children == Sum(d.drained)
        total_size == size_value + size_children
        w2 == write_all(w1.sink, to_le_bytes(total_size, TREE_SIZE_SIZE), accept2)
    IN  IF ~w1.ok
        THEN [writer |-> w1.sink, open_node_sizes |-> sizes, result |-> "Err", at |-> "value"]
        ELSE IF d.panic
        THEN [writer |-> w1.sink, open_node_sizes |-> sizes, result |-> "panic", at |-> "drain"]
        ELSE IF ~w2.ok
        THEN [writer |-> w2.sink, open_node_sizes |-> d.kept, result |-> "Err", at |-> "trailer"]
        ELSE [writer |-> w2.sink,
              open_node_sizes |-> Append(d.kept, total_size + TREE_SIZE_SIZE),
              result |-> "Ok", at |-> "end"]

\* a write_node whose trailer holds the size of the value alone
write_node_with_own_size(w, sizes, v, num_children, accept1, accept2) ==
    LET w1 == write_all(w, write_value(codec, v), accept1)
        size_value == Len(write_value(codec, v))
        start == usize_sub(Word(Len(sizes)), Word(num_children))
        d == IF start.panic THEN [panic |-> TRUE] ELSE drain(sizes, start.val)
        size_children == Sum(d.drained)
        total_size == size_value + size_children
        w2 == write_all(w1.sink, to_le_bytes(size_value, TREE_SIZE_SIZE), accept2)
    IN  IF ~w1.ok
        THEN [writer |-> w1.sink, open_node_sizes |-> sizes, result |-> "Err", at |-> "value"]
        ELSE IF d.panic
        THEN [writer |-> w1.sink, open_node_sizes |-> sizes, result |-> "panic", at |-> "drain"]
        ELSE IF ~w2.ok
        THEN [writer |-> w2.sink, open_node_sizes |-> d.kept, result |-> "Err", at |-> "trailer"]
        ELSE [writer |-> w2.sink,
              open_node_sizes |-> Append(d.kept, total_size + TREE_SIZE_SIZE),
              result |-> "Ok", at |-> "end"]

\* TreeBuilder::write_node(value, num_children) on a sink that takes accept1 bytes of
\* the value and accept2 bytes of the trailer: the writer and the open sizes it leaves,
\* and how the call ends ("Ok", "Err", "panic")
write_node(w, sizes, v, num_children, accept1, accept2) ==
    LET w1 == write_all(w, write_value(codec, v), accept1)
        size_value == Len(write_value(codec, v))
        start == usize_sub(Word(Len(sizes)), Word(num_children))
        d == IF start.panic THEN [panic |-> TRUE] ELSE drain(sizes, start.val)
        size_children == Sum(d.drained)
        total_size == size_value + size_children
        w2 == write_all(w1.sink, to_le_bytes(total_size, TREE_SIZE_SIZE), accept2)
    IN  IF ~w1.ok
        THEN [writer |-> w1.sink, open_node_sizes |-> sizes, result |-> "Err", at |-> "value"]
        ELSE IF d.panic
        THEN [writer |-> w1.sink, open_node_sizes |-> sizes, result |-> "panic", at |-> "drain"]
        ELSE IF ~w2.ok
        THEN [writer |-> w2.sink, open_node_sizes |-> d.kept, result |-> "Err", at |-> "trailer"]
        ELSE [writer |-> w2.sink,
              open_node_sizes |-> Append(d.kept, total_size + TREE_SIZE_SIZE),
              result |-> "Ok", at |-> "end"]

(* The tree the caller writes: every node with its value, its children in the *)
(* order they were written, and the sink offsets [lo, hi) its subtree's calls *)
(* covered.                                                                   *)

\* the node a successful write_node(v, k) call makes of the last k unattached subtrees
\* (of all of them, should there be fewer)
Attach(f, v, k, lo, hi) ==
    LET n == Len(f)
        m == IF k > n THEN n ELSE k
        ch == SubSeq(f, n - m + 1, n)
    IN  Append(SubSeq(f, 1, n - m),
               [value |-> v, children |-> ch,
                lo |-> IF m = 0 THEN lo ELSE ch[1].lo, hi |-> hi])

\* a call of write_node with the sink taking accept1 bytes of the value and accept2
\* bytes of the trailer
WriteNode(v, k, accept1, accept2) ==
    /\ tree = None
    /\ call.result # "panic"
    /\ call.n < MaxNodes
    /\ LET r == write_node(writer, open_node_sizes, v, k, accept1, accept2)
       IN  /\ writer' = r.writer
           /\ open_node_sizes' = r.open_node_sizes
           /\ call' = [n |-> call.n + 1, value |-> v, num_children |-> k,
                       accept1 |-> accept1, accept2 |-> accept2,
                       result |-> r.result, at |-> r.at]
           /\ forest' = IF r.result = "Ok"
                        THEN Attach(forest, v, k, Len(writer), Len(r.writer))
                        ELSE SubSeq(forest, 1, Len(r.open_node_sizes))
           /\ faults' = IF r.result = "Err" THEN faults + 1 ELSE faults
    /\ UNCHANGED <<build, codec, readerVars>>

\* write_node on a Vec<u8>, whose Write implementation takes every byte
WriteToVec ==
    \E v \in Values(codec), k \in 0..(Len(open_node_sizes) + MaxExcess) :
        WriteNode(v, k, Len(write_value(codec, v)), TREE_SIZE_SIZE)

\* how many of n bytes a rejecting sink took before it failed: none, one, all but one
Partial(n) == {0, 1, n - 1} \cap 0..(n - 1)

\* write_node on a writer that rejects the value or the trailer after taking part of it
WriteRejected ==
    /\ faults < MaxFaults
    /\ \E v \in Values(codec), k \in 0..(Len(open_node_sizes) + MaxExcess) :
        \/ \E a \in Partial(Len(write_value(codec, v))) :
              WriteNode(v, k, a, TREE_SIZE_SIZE)
        \/ \E a \in Partial(TREE_SIZE_SIZE) :
              WriteNode(v, k, Len(write_value(codec, v)), a)

-----------------------------------------------------------------------------
(* TreeVec, TreeSlice and Branches *)

\* TreeSlice::from_slice: the same range, seen as a tree
from_slice(s) == s

\* TreeVec::as_tree_slice (and Deref): the slice over all bytes of the vector
as_tree_slice(buf) == from_slice(Range(0, Len(buf)))

\* read_node leaving the value's bytes in the range it hands to Branches
read_node_keeping_value(buf, s) ==
    LET total_size == Word(LenOf(s))
        end == usize_sub(total_size, Word(TREE_SIZE_SIZE))
        before == IF end.panic THEN [panic |-> TRUE] ELSE slice_to(s, end.val)
        rv == IF before.panic THEN [panic |-> TRUE] ELSE read_value(codec, buf, before.val)
    IN  IF rv.panic THEN [panic |-> TRUE]
        ELSE [panic |-> FALSE, value |-> rv.value, branches |-> before.val,
              touched |-> rv.touched]

\* a read_node that takes as many bytes of children as the slice's own trailer says
read_node_by_trailer(buf, s) ==
    LET total_size == Word(LenOf(s))
        end == usize_sub(total_size, Word(TREE_SIZE_SIZE))
        before == IF end.panic THEN [panic |-> TRUE] ELSE slice_to(s, end.val)
        rv == IF before.panic THEN [panic |-> TRUE] ELSE read_value(codec, buf, before.val)
        end2 == IF rv.panic THEN [panic |-> TRUE] ELSE usize_sub(end.val, Word(rv.size))
        rest == IF end2.panic THEN [panic |-> TRUE] ELSE slice_to(s, end2.val)
    IN  IF rest.panic THEN [panic |-> TRUE]
        ELSE [panic |-> FALSE, value |-> rv.value, branches |->
                  Range(rest.val.hi
                          - (from_le_bytes(SubSeq(buf, s.hi - TREE_SIZE_SIZE + 1, s.hi),
                                           FALSE) - rv.size),
                        rest.val.hi),
              touched |-> rv.touched]

\* TreeSlice::read_node on the range s of buf: the value and the Branches over
\* what precedes it, or a panic
read_node(buf, s) ==
    LET total_size == Word(LenOf(s))
        end == usize_sub(total_size, Word(TREE_SIZE_SIZE))
        before == IF end.panic THEN [panic |-> TRUE] ELSE slice_to(s, end.val)
        rv == IF before.panic THEN [panic |-> TRUE] ELSE read_value(codec, buf, before.val)
        end2 == IF rv.panic THEN [panic |-> TRUE] ELSE usize_sub(end.val, Word(rv.size))
        rest == IF end2.panic THEN [panic |-> TRUE] ELSE slice_to(s, end2.val)
    IN  IF rest.panic THEN [panic |-> TRUE]
        ELSE [panic |-> FALSE, value |-> rv.value, branches |-> rest.val,
              touched |-> rv.touched]

\* next splitting tree_size bytes off, without the 8 bytes of the child's trailer
next_without_trailer(buf, b) ==
    IF LenOf(b) = 0
    THEN [panic |-> FALSE, item |-> None, bytes |-> b, touched |-> Range(b.lo, b.lo)]
    ELSE
    LET total_size == Word(LenOf(b))
        start == usize_sub(total_size, Word(TREE_SIZE_SIZE))
        last == IF start.panic THEN [panic |-> TRUE] ELSE slice_from(b, start.val)
        arr == IF last.panic \/ LenOf(last.val) # TREE_SIZE_SIZE
               THEN [panic |-> TRUE]
               ELSE [panic |-> FALSE, val |-> BytesOf(buf, last.val)]
        tree_size == as_usize(arr.val)
        d1 == IF arr.panic THEN [panic |-> TRUE] ELSE usize_sub(total_size, tree_size)
        sp == IF d1.panic THEN [panic |-> TRUE] ELSE split_at(b, d1.val)
    IN  IF sp.panic THEN [panic |-> TRUE]
        ELSE [panic |-> FALSE, item |-> Some(from_slice(sp.right)), bytes |-> sp.left,
              touched |-> last.val]

\* next taking the two halves of split_at the wrong way round
next_swapped(buf, b) ==
    IF LenOf(b) = 0
    THEN [panic |-> FALSE, item |-> None, bytes |-> b, touched |-> Range(b.lo, b.lo)]
    ELSE
    LET total_size == Word(LenOf(b))
        start == usize_sub(total_size, Word(TREE_SIZE_SIZE))
        last == IF start.panic THEN [panic |-> TRUE] ELSE slice_from(b, start.val)
        arr == IF last.panic \/ LenOf(last.val) # TREE_SIZE_SIZE
               THEN [panic |-> TRUE]
               ELSE [panic |-> FALSE, val |-> BytesOf(buf, last.val)]
        tree_size == as_usize(arr.val)
        d1 == IF arr.panic THEN [panic |-> TRUE] ELSE usize_sub(total_size, tree_size)
        d2 == IF d1.panic THEN [panic |-> TRUE]
              ELSE usize_sub(d1.val, Word(TREE_SIZE_SIZE))
        sp == IF d2.panic THEN [panic |-> TRUE] ELSE split_at(b, d2.val)
    IN  IF sp.panic THEN [panic |-> TRUE]
        ELSE [panic |-> FALSE, item |-> Some(from_slice(sp.left)), bytes |-> sp.right,
              touched |-> last.val]

\* a next whose remainder keeps the size trailer of the child it returns
next_leaving_trailer(buf, b) ==
    IF LenOf(b) = 0
    THEN [panic |-> FALSE, item |-> None, bytes |-> b, touched |-> Range(b.lo, b.lo)]
    ELSE
    LET total_size == Word(LenOf(b))
        start == usize_sub(total_size, Word(TREE_SIZE_SIZE))
        last == IF start.panic THEN [panic |-> TRUE] ELSE slice_from(b, start.val)
        \* try_into::<&[u8; 8]>().unwrap()
        arr == IF last.panic \/ LenOf(last.val) # TREE_SIZE_SIZE
               THEN [panic |-> TRUE]
               ELSE [panic |-> FALSE, val |-> BytesOf(buf, last.val)]
        tree_size == as_usize(arr.val)
        d1 == IF arr.panic THEN [panic |-> TRUE] ELSE usize_sub(total_size, tree_size)
        d2 == IF d1.panic THEN [panic |-> TRUE]
              ELSE usize_sub(d1.val, Word(TREE_SIZE_SIZE))
        sp == IF d2.panic THEN [panic |-> TRUE] ELSE split_at(b, d2.val)
    IN  IF sp.panic THEN [panic |-> TRUE]
        ELSE [panic |-> FALSE, item |-> Some(from_slice(sp.right)), bytes |-> Range(b.lo, sp.left.hi + TREE_SIZE_SIZE),
              touched |-> last.val]

\* a next without the early return on an empty region
next_without_is_empty(buf, b) ==
    LET total_size == Word(LenOf(b))
        start == usize_sub(total_size, Word(TREE_SIZE_SIZE))
        last == IF start.panic THEN [panic |-> TRUE] ELSE slice_from(b, start.val)
        \* try_into::<&[u8; 8]>().unwrap()
        arr == IF last.panic \/ LenOf(last.val) # TREE_SIZE_SIZE
               THEN [panic |-> TRUE]
               ELSE [panic |-> FALSE, val |-> BytesOf(buf, last.val)]
        tree_size == as_usize(arr.val)
        d1 == IF arr.panic THEN [panic |-> TRUE] ELSE usize_sub(total_size, tree_size)
        d2 == IF d1.panic THEN [panic |-> TRUE]
              ELSE usize_sub(d1.val, Word(TREE_SIZE_SIZE))
        sp == IF d2.panic THEN [panic |-> TRUE] ELSE split_at(b, d2.val)
    IN  IF sp.panic THEN [panic |-> TRUE]
        ELSE [panic |-> FALSE, item |-> Some(from_slice(sp.right)), bytes |-> sp.left,
              touched |-> last.val]

\* Branches::next on the iterator whose bytes are the range b of buf: the item it
\* returns, the bytes it keeps and the range of the bytes it reads, or a panic
next(buf, b) ==
    IF LenOf(b) = 0
    THEN [panic |-> FALSE, item |-> None, bytes |-> b, touched |-> Range(b.lo, b.lo)]
    ELSE
    LET total_size == Word(LenOf(b))
        start == usize_sub(total_size, Word(TREE_SIZE_SIZE))
        last == IF start.panic THEN [panic |-> TRUE] ELSE slice_from(b, start.val)
        \* try_into::<&[u8; 8]>().unwrap()
        arr == IF last.panic \/ LenOf(last.val) # TREE_SIZE_SIZE
               THEN [panic |-> TRUE]
               ELSE [panic |-> FALSE, val |-> BytesOf(buf, last.val)]
        tree_size == as_usize(arr.val)
        d1 == IF arr.panic THEN [panic |-> TRUE] ELSE usize_sub(total_size, tree_size)
        d2 == IF d1.panic THEN [panic |-> TRUE]
              ELSE usize_sub(d1.val, Word(TREE_SIZE_SIZE))
        sp == IF d2.panic THEN [panic |-> TRUE] ELSE split_at(b, d2.val)
    IN  IF sp.panic THEN [panic |-> TRUE]
        ELSE [panic |-> FALSE, item |-> Some(from_slice(sp.right)), bytes |-> sp.left,
              touched |-> last.val]

\* the readers that hold a Branches iterator
Readers == {1}
\* two readers of one tree, each with a Branches iterator of its own
BothReaders == {1, 2}

\* TreeVec::new(bytes): the tree takes ownership of the bytes the builder wrote
NewTreeVec ==
    /\ tree = None
    /\ call.result # "panic"
    /\ tree' = Some(writer)
    /\ UNCHANGED <<build, codec, builderVars, slice, branches, origin, yielded, value, item, reader>>

\* s.read_node() by reader r, on the slice s
ReadNode(r, s) ==
    /\ reader = "ok"
    /\ LET res == read_node(tree.some, s)
       IN  IF res.panic
           THEN /\ reader' = "panic"
                /\ UNCHANGED <<branches, origin, yielded, value>>
           ELSE /\ reader' = reader
                /\ branches' = [branches EXCEPT ![r] = Some(res.branches)]
                /\ origin' = [origin EXCEPT ![r] = Some(s)]
                /\ yielded' = [yielded EXCEPT ![r] = <<>>]
                /\ value' = Some(res.value)
    /\ slice' = Some(s)
    /\ UNCHANGED <<build, codec, builderVars, tree, item>>

\* tree.read_node(): the root, through Deref
ReadNodeOfTree ==
    /\ ~tree.none
    /\ \E r \in DOMAIN branches : ReadNode(r, as_tree_slice(tree.some))

\* read_node on the tree slice the latest next returned
ReadNodeOfItem ==
    /\ ~tree.none
    /\ ~item.none
    /\ \E r \in DOMAIN branches : ReadNode(r, item.some)

\* next splitting the yielded bytes off the vector itself, as Vec::split_off would
BranchesNextSplittingOff ==
    /\ ~tree.none
    /\ reader = "ok"
    /\ \E r \in DOMAIN branches :
        /\ ~branches[r].none
        /\ Len(yielded[r]) < MaxItems
        /\ LET res == next(tree.some, branches[r].some)
           IN  IF res.panic
               THEN /\ reader' = "panic"
                    /\ UNCHANGED <<branches, yielded, item, tree>>
               ELSE /\ reader' = reader
                    /\ branches' = [branches EXCEPT ![r] = Some(res.bytes)]
                    /\ item' = res.item
                    /\ yielded' = [yielded EXCEPT ![r] =
                                     IF res.item.none THEN @ ELSE Append(@, res.item.some)]
                    /\ tree' = Some(SubSeq(tree.some, 1, res.bytes.hi))
    /\ UNCHANGED <<build, codec, builderVars, slice, origin, value>>

\* next advancing one cursor that the iterators obtained from the same slice share
BranchesNextOfSharedCursor ==
    /\ ~tree.none
    /\ reader = "ok"
    /\ \E r \in DOMAIN branches :
        /\ ~branches[r].none
        /\ Len(yielded[r]) < MaxItems
        /\ LET res == next(tree.some, branches[r].some)
           IN  IF res.panic
               THEN /\ reader' = "panic"
                    /\ UNCHANGED <<branches, yielded, item>>
               ELSE /\ reader' = reader
                    /\ branches' = [q \in DOMAIN branches |->
                                      IF origin[q] = origin[r] THEN Some(res.bytes)
                                      ELSE branches[q]]
                    /\ item' = res.item
                    /\ yielded' = [yielded EXCEPT ![r] =
                                     IF res.item.none THEN @ ELSE Append(@, res.item.some)]
    /\ UNCHANGED <<build, codec, builderVars, tree, slice, origin, value>>

\* branches.next() by reader r
BranchesNext ==
    /\ ~tree.none
    /\ reader = "ok"
    /\ \E r \in DOMAIN branches :
        /\ ~branches[r].none
        /\ Len(yielded[r]) < MaxItems
        /\ LET res == next(tree.some, branches[r].some)
           IN  IF res.panic
               THEN /\ reader' = "panic"
                    /\ UNCHANGED <<branches, yielded, item>>
               ELSE /\ reader' = reader
                    /\ branches' = [branches EXCEPT ![r] = Some(res.bytes)]
                    /\ item' = res.item
                    /\ yielded' = [yielded EXCEPT ![r] =
                                     IF res.item.none THEN @ ELSE Append(@, res.item.some)]
    /\ UNCHANGED <<build, codec, builderVars, tree, slice, origin, value>>

-----------------------------------------------------------------------------
(* Specifications *)

\* the ways the crate is compiled: with or without overflow checks, usize of 4 or 8 bytes
Builds == [overflow_checks : BOOLEAN, usize_bytes : {4, 8}]

Init ==
    /\ build \in Builds
    /\ codec \in Codecs
    /\ writer = <<>>
    /\ open_node_sizes = <<>>
    /\ call = NoCall
    /\ forest = <<>>
    /\ faults = 0
    /\ tree = None
    /\ slice = None
    /\ branches = [r \in Readers |-> None]
    /\ origin = [r \in Readers |-> None]
    /\ yielded = [r \in Readers |-> <<>>]
    /\ value = None
    /\ item = Unset
    /\ reader = "ok"

\* a builder over a Vec<u8>, and the tree read from the bytes it wrote
Next ==
    \/ WriteToVec
    \/ NewTreeVec
    \/ ReadNodeOfTree
    \/ ReadNodeOfItem
    \/ BranchesNext

Spec == Init /\ [][Next]_vars

\* a builder over a writer that may reject a write
NextIo ==
    \/ WriteToVec
    \/ WriteRejected

SpecIo == Init /\ [][NextIo]_vars

(* Bytes the builder did not write: TreeVec::new takes any Vec<u8> *)

\* the pieces such a vector is made of: a value of either codec, a leaf, and size
\* words that are zero, small, and such that adding 8 wraps around in usize
Pieces ==
    { <<7>>,
      <<42, 0, 0, 0>>,
      to_le_bytes(0, TREE_SIZE_SIZE),
      to_le_bytes(1, TREE_SIZE_SIZE),
      <<7>> \o to_le_bytes(1, TREE_SIZE_SIZE),
      to_le_bytes(-8, TREE_SIZE_SIZE),
      to_le_bytes(-8, 4) \o to_le_bytes(0, 4) }

RECURSIVE Vectors(_)
\* the byte vectors made of at most n pieces
Vectors(n) ==
    IF n = 0 THEN {<<>>}
    ELSE LET shorter == Vectors(n - 1)
         IN  shorter \cup {v \o p : v \in shorter, p \in Pieces}

\* TreeVec::new(bytes) on bytes of any origin
NewTreeVecOfBytes ==
    /\ tree = None
    /\ call.n = 0
    /\ \E b \in Vectors(MaxPieces) : tree' = Some(b)
    /\ UNCHANGED <<build, codec, builderVars, slice, branches, origin, yielded, value, item, reader>>

\* a tree over bytes of any origin, and its readers
NextBytes ==
    \/ NewTreeVecOfBytes
    \/ ReadNodeOfTree
    \/ ReadNodeOfItem
    \/ BranchesNext

SpecBytes == Init /\ [][NextBytes]_vars

(* A tree that two readers share *)

RECURSIVE WriteNodes(_)
\* the builder over a Vec<u8> after the write_node calls of the sequence calls, each
\* a pair of a value and a number of children
WriteNodes(calls) ==
    IF calls = <<>> THEN [writer |-> <<>>, open_node_sizes |-> <<>>]
    ELSE LET b == WriteNodes(SubSeq(calls, 1, Len(calls) - 1))
             c == calls[Len(calls)]
         IN  write_node(b.writer, b.open_node_sizes, c[1], c[2],
                        Len(write_value(codec, c[1])), TREE_SIZE_SIZE)

\* the bytes of a root with the value v and k leaves as its children, the leaves
\* having the values v and w in turn
RootWithChildren(k, v, w) ==
    WriteNodes([i \in 1..k |-> <<IF i % 2 = 1 THEN v ELSE w, 0>>] \o <<<<v, k>>>>).writer

\* TreeVec::new on the bytes of a root with children, for two readers
NewTreeVecOfChildren ==
    /\ tree = None
    /\ call.n = 0
    /\ \E k \in 0..MaxChildren, v \in Values(codec), w \in Values(codec) :
          tree' = Some(RootWithChildren(k, v, w))
    /\ branches' = [r \in BothReaders |-> None]
    /\ origin' = [r \in BothReaders |-> None]
    /\ yielded' = [r \in BothReaders |-> <<>>]
    /\ UNCHANGED <<build, codec, builderVars, slice, value, item, reader>>

\* a tree of a root with children, and two readers of it taking turns
NextReaders ==
    \/ NewTreeVecOfChildren
    \/ ReadNodeOfTree
    \/ ReadNodeOfItem
    \/ BranchesNext

SpecReaders == Init /\ [][NextReaders]_vars

-----------------------------------------------------------------------------
(* What the claims speak of *)

RECURSIVE NodesOf(_)
\* the nodes of a written subtree
NodesOf(t) == {t} \cup UNION {NodesOf(t.children[i]) : i \in 1..Len(t.children)}

\* every node written so far
AllNodes == UNION {NodesOf(forest[i]) : i \in 1..Len(forest)}

\* the sink offsets the calls of a node's subtree covered
Extent(g) == Range(g.lo, g.hi)

\* the sequence s in reverse
Reverse(s) == [i \in 1..Len(s) |-> s[Len(s) + 1 - i]]

RECURSIVE Collect(_, _)
\* every item a Branches over the range b returns until it returns None, in order
Collect(buf, b) ==
    LET r == next(buf, b)
    IN  IF r.panic THEN <<[panic |-> TRUE]>>
        ELSE IF r.item.none THEN <<>>
        ELSE IF r.bytes = b THEN <<[stuck |-> TRUE]>>
        ELSE <<r.item.some>> \o Collect(buf, r.bytes)

RECURSIVE Decoded(_, _)
\* the tree read from the range s: read_node, then read_node of every child its
\* Branches yields, in the order they are yielded
Decoded(buf, s) ==
    LET rn == read_node(buf, s)
        ch == Collect(buf, rn.branches)
    IN  IF rn.panic THEN [panic |-> TRUE]
        ELSE [value |-> rn.value,
              children |-> [i \in 1..Len(ch) |->
                               IF "lo" \in DOMAIN ch[i] THEN Decoded(buf, ch[i])
                               ELSE ch[i]]]

RECURSIVE Mirrored(_)
\* a written subtree as a reader is to see it: the children of every node reversed
Mirrored(g) ==
    [value |-> g.value,
     children |-> [i \in 1..Len(g.children) |->
                      Mirrored(g.children[Len(g.children) + 1 - i])]]

RECURSIVE Views(_, _)
\* the views a reader reaches from the range s: s itself, the child views its
\* Branches yields, and the views reached from those
Views(buf, s) ==
    LET rn == read_node(buf, s)
        ch == IF rn.panic THEN <<>> ELSE Collect(buf, rn.branches)
    IN  {s} \cup UNION {IF "lo" \in DOMAIN ch[i] THEN Views(buf, ch[i]) ELSE {}
                          : i \in 1..Len(ch)}

\* the size trailer that ends at offset hi of buf
TrailerAt(buf, hi) == from_le_bytes(SubSeq(buf, hi - TREE_SIZE_SIZE + 1, hi), FALSE)

\* the range a lies inside the range b
Within(a, b) == b.lo <= a.lo /\ a.lo <= a.hi /\ a.hi <= b.hi

\* a write_node call has just returned or panicked
Called == call'.n = call.n + 1

-----------------------------------------------------------------------------
(* C1: round trip.  When a fresh builder over an empty Vec has been given   *)
(* one successful write_node call per node of a tree in depth-first         *)
(* post-order, so that one subtree is open, reading the bytes with          *)
(* read_node, recursively through every child Branches yields, returns at   *)
(* every node the value written for it and as many children as it was       *)
(* written with, each decoding to the corresponding subtree; and the value  *)
(* a reader has just read from a slice is the one written for that node.    *)
C1_RoundTrip ==
    (~tree.none /\ Len(forest) = 1) =>
        /\ Decoded(tree.some, as_tree_slice(tree.some)) = Mirrored(forest[1])
        /\ reader = "ok"
        /\ (~slice.none /\ ~value.none) =>
              \E g \in AllNodes : Extent(g) = slice.some /\ value.some = g.value

\* a reader has descended to the leaf of a chain of three nodes and read its value
C1_Witness ==
    /\ ~tree.none /\ Len(forest) = 1
    /\ Len(forest[1].children) = 1
    /\ Len(forest[1].children[1].children) = 1
    /\ ~slice.none /\ ~value.none
    /\ slice.some = Extent(forest[1].children[1].children[1])
    /\ forest[1].value # value.some

(* C2: reversed child order.  For every node written with k children        *)
(* c1..ck, the iterator read_node returns yields ck first and c1 last: the  *)
(* i-th item is the range of the (k-i+1)-th written child, and after k      *)
(* items it returns None.                                                   *)
C2_ReversedOrder ==
    ~tree.none =>
        \A g \in AllNodes :
            LET rn == read_node(tree.some, Extent(g))
            IN  /\ ~rn.panic
                /\ Collect(tree.some, rn.branches)
                     = Reverse([i \in 1..Len(g.children) |-> Extent(g.children[i])])

\* a reader of a node with two children has called next twice: the item is the child
\* written first
C2_Witness ==
    /\ ~tree.none /\ Len(forest) = 1
    /\ Len(forest[1].children) = 2
    /\ slice = Some(Extent(forest[1]))
    /\ \E r \in Readers : branches[r] = Some(Range(0, 0))
    /\ item = Some(Extent(forest[1].children[1]))
    /\ forest[1].children[1].value # forest[1].children[2].value

(* C3: size accounting.  After any sequence of successful post-order        *)
(* write_node calls, the 8 byte little-endian trailer of every node equals  *)
(* the byte count of the node's own value plus, for each of its children,   *)
(* that child's trailer plus 8.                                             *)
C3_SizeAccounting ==
    call.result \in {"none", "Ok"} =>
        \A g \in AllNodes :
            TrailerAt(writer, g.hi)
              = Len(write_value(codec, g.value))
                + Sum([i \in 1..Len(g.children) |->
                         TrailerAt(writer, g.children[i].hi) + TREE_SIZE_SIZE])

\* a chain of three nodes has been written: the sizes nest twice
C3_Witness ==
    /\ call.result = "Ok"
    /\ Len(forest) = 1
    /\ Len(forest[1].children) = 1
    /\ Len(forest[1].children[1].children) = 1
    /\ TrailerAt(writer, Len(writer)) = Len(writer) - TREE_SIZE_SIZE

(* C4: builder precondition violation.  In any builder state, a write_node  *)
(* call with num_children greater than the number of open sizes never       *)
(* returns Ok, and panics as soon as the sink has taken the value; no       *)
(* trailer is written for the node (the sink grows by bytes of the value    *)
(* only) and no open size is pushed or removed.                             *)
C4_PreconditionViolation ==
    [][(Called /\ call'.num_children > Len(open_node_sizes)) =>
          LET vb == write_value(codec, call'.value)
          IN  /\ call'.result # "Ok"
              /\ call'.accept1 = Len(vb) => call'.result = "panic"
              /\ open_node_sizes' = open_node_sizes
              /\ \E n \in 0..Len(vb) : writer' = writer \o SubSeq(vb, 1, n)]_vars

\* a build without overflow checks has panicked on a call that asked for more children
\* than the one open subtree
C4_Witness ==
    /\ call.result = "panic"
    /\ ~build.overflow_checks
    /\ Len(open_node_sizes) = 1
    /\ call.num_children = 2

(* C5: sub-view independence.  Every child view Branches yields covers      *)
(* exactly the byte range the builder emitted for that child's subtree, and *)
(* decoding a copy of that range as a tree of its own gives the same value  *)
(* and children as decoding it in place, namely the subtree written.        *)
C5_SubViewIndependence ==
    (~tree.none /\ ~item.none) =>
        \E g \in AllNodes :
            LET copy == BytesOf(tree.some, item.some)
            IN  /\ item.some = Extent(g)
                /\ Decoded(copy, as_tree_slice(copy)) = Decoded(tree.some, item.some)
                /\ Decoded(copy, as_tree_slice(copy)) = Mirrored(g)

\* the second of two siblings has been yielded: its range starts after its sibling's
C5_Witness ==
    /\ ~tree.none /\ ~item.none
    /\ Len(forest) = 1
    /\ Len(forest[1].children) = 2
    /\ item.some = Extent(forest[1].children[2])
    /\ item.some.lo > 0

(* C6: sink growth.  Every write_node call that returns Ok appends exactly  *)
(* size_value + 8 bytes to the sink, the value's bytes first, and leaves    *)
(* the bytes written before unchanged, whatever num_children is.            *)
C6_SinkGrowth ==
    [][(Called /\ call'.result = "Ok") =>
          LET vb == write_value(codec, call'.value)
              old == Len(writer)
          IN  /\ Len(writer') = old + Len(vb) + TREE_SIZE_SIZE
              /\ SubSeq(writer', 1, old) = writer
              /\ SubSeq(writer', old + 1, old + Len(vb)) = vb]_vars

\* a node with two children has been written after them
C6_Witness ==
    /\ call.result = "Ok"
    /\ call.num_children = 2
    /\ Len(writer) = 3 * (Len(write_value(codec, call.value)) + TREE_SIZE_SIZE)

(* C7: I/O failure.  When the sink rejects the value write, or takes the    *)
(* value and rejects the trailer write, write_node returns the error at     *)
(* once: the sink holds what it held before plus the bytes it took, written *)
(* once (no retry, no rollback), and no new entry is pushed on the open     *)
(* sizes, which are a prefix of what they were.                             *)
C7_IoFailure ==
    [][Called =>
          LET vb == write_value(codec, call'.value)
              n == Len(open_node_sizes)
              k == call'.num_children
          IN  /\ call'.accept1 < Len(vb) =>
                    /\ call'.result = "Err"
                    /\ writer' = writer \o SubSeq(vb, 1, call'.accept1)
                    /\ open_node_sizes' = open_node_sizes
              /\ (call'.accept1 = Len(vb) /\ k <= n /\ call'.accept2 < TREE_SIZE_SIZE) =>
                    /\ call'.result = "Err"
                    /\ Len(writer') = Len(writer) + Len(vb) + call'.accept2
                    /\ SubSeq(writer', 1, Len(writer) + Len(vb)) = writer \o vb
                    /\ Len(open_node_sizes') <= n
                    /\ open_node_sizes' = SubSeq(open_node_sizes, 1, Len(open_node_sizes'))
       ]_vars

\* the sink took the value and part of the trailer of a node with a child
C7_Witness ==
    /\ call.result = "Err"
    /\ call.at = "trailer"
    /\ call.accept2 > 0
    /\ call.num_children = 1

(* C8: non-mutation.  Once a TreeVec holds the bytes, no read_node call and *)
(* no Branches::next call, on the root or on a child view, changes a byte   *)
(* of them.                                                                 *)
C8_NonMutation ==
    [][~tree.none => tree' = tree]_vars

\* a reader has read a child view that next yielded and stepped on: the tree still
\* holds the bytes as written
C8_Witness ==
    /\ ~tree.none /\ ~item.none /\ ~slice.none
    /\ slice.some # as_tree_slice(tree.some)
    /\ item.some # slice.some
    /\ tree.some = writer

(* C9: leaf encoding.  One write_node(value, 0) on a fresh builder over an  *)
(* empty sink gives a buffer of size_value + 8 bytes whose trailer is       *)
(* size_value (12 bytes with trailer 4 for the 4 byte LeI32); read_node on  *)
(* it returns the value and an iterator whose first next returns None.      *)
C9_LeafEncoding ==
    (call.n = 1 /\ call.num_children = 0 /\ call.result = "Ok") =>
        LET size_value == Len(write_value(codec, call.value))
            rn == read_node(writer, as_tree_slice(writer))
        IN  /\ Len(writer) = size_value + TREE_SIZE_SIZE
            /\ TrailerAt(writer, Len(writer)) = size_value
            /\ codec = "LeI32" => (Len(writer) = 12 /\ TrailerAt(writer, 12) = 4)
            /\ ~rn.panic
            /\ rn.value = call.value
            /\ ~next(writer, rn.branches).panic
            /\ next(writer, rn.branches).item = None
            /\ ~tree.none =>
                  /\ reader = "ok"
                  /\ ~value.none => value.some = call.value
                  /\ item \in {Unset, None}

\* the leaf 42 has been written with LeI32 and read back, and next has returned None
C9_Witness ==
    /\ call.n = 1 /\ call.num_children = 0 /\ call.result = "Ok"
    /\ codec = "LeI32"
    /\ value = Some(42)
    /\ item = None

(* C10: bytes of any origin are read memory-safely.  For every byte vector  *)
(* given to TreeVec::new, a read_node or next call either panics or reads   *)
(* and returns only ranges inside the view it was called on: the bytes read *)
(* and the children region lie in the slice read, the bytes read, the       *)
(* remainder and the child view in the region they were split from, and all *)
(* of them in the buffer.                                                   *)
C10_MemorySafe ==
    [][~tree'.none =>
          LET whole == Range(0, Len(tree'.some))
          IN  /\ ~slice'.none => Within(slice'.some, whole)
              /\ ~item'.none => Within(item'.some, whole)
              /\ \A r \in Readers : ~branches'[r].none => Within(branches'[r].some, whole)
              /\ ((ReadNodeOfTree \/ ReadNodeOfItem) /\ reader' = "ok") =>
                    \E r \in Readers :
                        /\ ~branches'[r].none
                        /\ Within(branches'[r].some, slice'.some)
                        /\ Within(read_node(tree.some, slice'.some).touched, slice'.some)
              /\ (BranchesNext /\ reader' = "ok") =>
                    \E r \in Readers :
                        /\ ~branches[r].none /\ ~branches'[r].none
                        /\ Within(branches'[r].some, branches[r].some)
                        /\ ~item'.none => Within(item'.some, branches[r].some)
                        /\ Within(next(tree.some, branches[r].some).touched,
                                  branches[r].some)
       ]_vars

\* on bytes whose size word wraps around, next has returned an empty child view
C10_Witness ==
    /\ ~tree.none /\ call.n = 0
    /\ reader = "ok"
    /\ ~item.none
    /\ LenOf(item.some) = 0

(* C11: open-size stack step.  A write_node(value, k) call that returns Ok  *)
(* on a stack of n entries has n >= k, leaves the first n - k entries       *)
(* unchanged and in order, removes the last k and pushes the one entry      *)
(* size_value + (sum of the k removed entries) + 8: the length becomes      *)
(* n - k + 1.                                                               *)
C11_StackStep ==
    [][(Called /\ call'.result = "Ok") =>
          LET n == Len(open_node_sizes)
              k == call'.num_children
              size_value == Len(write_value(codec, call'.value))
          IN  /\ n >= k
              /\ Len(open_node_sizes') = n - k + 1
              /\ SubSeq(open_node_sizes', 1, n - k) = SubSeq(open_node_sizes, 1, n - k)
              /\ open_node_sizes'[n - k + 1]
                   = size_value + Sum(SubSeq(open_node_sizes, n - k + 1, n))
                     + TREE_SIZE_SIZE]_vars

\* a node has taken the second of two open leaves as its child, the first staying open
C11_Witness ==
    /\ call.result = "Ok"
    /\ call.num_children = 1
    /\ Len(open_node_sizes) = 2
    /\ open_node_sizes[2] = open_node_sizes[1] + Len(write_value(codec, call.value))
                              + TREE_SIZE_SIZE

(* C12: the iterator step is a partition.  On a region of len bytes whose   *)
(* last 8 bytes decode to t, with the t + 8 bytes there to be taken, next   *)
(* returns the view over the final t + 8 bytes and leaves the first         *)
(* len - t - 8 bytes as its region: the new region followed by the child    *)
(* returned is the old region, no byte dropped, duplicated or reordered.    *)
C12_Partition ==
    [][BranchesNext =>
          \A r \in DOMAIN branches :
              (/\ ~branches[r].none
               /\ LenOf(branches[r].some) >= TREE_SIZE_SIZE
               /\ LET b == branches[r].some
                      t == SubSeq(tree.some, b.hi - TREE_SIZE_SIZE + 1, b.hi)
                  IN  IsSmall(t) /\ SmallOf(t) + TREE_SIZE_SIZE <= LenOf(b))
              => LET b == branches[r].some
                     t == SmallOf(SubSeq(tree.some, b.hi - TREE_SIZE_SIZE + 1, b.hi))
                 IN  /\ reader' = "ok"
                     /\ item' = Some(Range(b.hi - t - TREE_SIZE_SIZE, b.hi))
                     /\ branches'[r] = Some(Range(b.lo, b.hi - t - TREE_SIZE_SIZE))
                     /\ BytesOf(tree.some, branches'[r].some)
                          \o BytesOf(tree.some, item'.some)
                        = BytesOf(tree.some, b)]_vars

\* next has split a leaf off a region and left the byte before it as the remainder
C12_Witness ==
    /\ ~tree.none /\ call.n = 0
    /\ reader = "ok"
    /\ ~item.none
    /\ LenOf(item.some) > TREE_SIZE_SIZE
    /\ LET t == SubSeq(tree.some, item.some.hi - TREE_SIZE_SIZE + 1, item.some.hi)
       IN  IsSmall(t) /\ LenOf(item.some) = SmallOf(t) + TREE_SIZE_SIZE
    /\ \E r \in DOMAIN branches :
          /\ ~branches[r].none
          /\ LenOf(branches[r].some) > 0
          /\ branches[r].some.hi = item.some.lo

(* C13: the iterator is finite and terminal.  On the children region of a   *)
(* node written with k children, next returns a child exactly k times and   *)
(* then None; once it has returned None, every later next returns None      *)
(* too and the region stays empty.                                          *)
C13_FiniteTerminal ==
    [][BranchesNext =>
          \A r \in DOMAIN branches : \A g \in AllNodes :
              origin[r] = Some(Extent(g)) =>
                  LET k == Len(g.children)
                      done == Len(yielded[r])
                  IN  /\ reader' = "ok"
                      /\ done <= k
                      /\ done < k =>
                            /\ ~item'.none
                            /\ yielded'[r] = Append(yielded[r], item'.some)
                      /\ done = k =>
                            /\ item' = None
                            /\ yielded'[r] = yielded[r]
                            /\ branches'[r] = branches[r]
                            /\ LenOf(branches'[r].some) = 0]_vars

\* the iterator of a node with two children has returned both and then None
C13_Witness ==
    /\ ~tree.none /\ Len(forest) = 1
    /\ Len(forest[1].children) = 2
    /\ \E r \in DOMAIN branches :
          /\ origin[r] = Some(Extent(forest[1]))
          /\ Len(yielded[r]) = 2
          /\ branches[r] = Some(Range(0, 0))
    /\ item = None

(* C14: a rejected call does not corrupt the buffer.  A write_node call     *)
(* with num_children greater than the number of open sizes aborts before    *)
(* any byte is written: the sink holds after the abort what it held before  *)
(* the call.                                                                *)
C14_RejectedCallWritesNothing ==
    [][(Called /\ call'.num_children > Len(open_node_sizes)) =>
          /\ call'.result = "panic"
          /\ writer' = writer]_vars

(* C15: independent readers.  Two iterators obtained by separate read_node  *)
(* calls on the same view, their next calls interleaved in any order, each  *)
(* return the sequence of child views they return when run alone: at every  *)
(* point of every interleaving, what an iterator has returned so far        *)
(* followed by what it has yet to return is the sequence a fresh read_node  *)
(* of its view gives, so no next call on the other iterator has changed     *)
(* it; this holds as well once the iterator was exhausted and read_node     *)
(* called again.                                                            *)
C15_IndependentReaders ==
    ~tree.none =>
        \A r \in DOMAIN branches :
            ~origin[r].none =>
                /\ ~branches[r].none
                /\ yielded[r] \o Collect(tree.some, branches[r].some)
                     = Collect(tree.some, read_node(tree.some, origin[r].some).branches)

\* two iterators over the root with two children have taken turns: one has returned
\* the first child and stands before the second, the other has returned both
C15_Witness ==
    /\ ~tree.none
    /\ DOMAIN branches = BothReaders
    /\ origin[1] = Some(as_tree_slice(tree.some))
    /\ origin[2] = origin[1]
    /\ Len(yielded[1]) = 1 /\ Len(yielded[2]) = 2
    /\ yielded[2][1] = yielded[1][1]
    /\ LenOf(branches[1].some) > 0
    /\ LenOf(branches[2].some) = 0

(* C16: builder bookkeeping.  After any sequence of successful write_node   *)
(* calls on a fresh builder over an empty sink, each with num_children at   *)
(* most the stack length, the entries of the open-size stack sum up to the  *)
(* number of bytes written, and each entry is the byte length of one        *)
(* contiguous run of the sink, the subtree written and left open at that    *)
(* position: the runs tile the sink from low to high offset in stack order. *)
C16_Bookkeeping ==
    call.result \in {"none", "Ok"} =>
        LET n == Len(open_node_sizes)
            End(i) == Sum(SubSeq(open_node_sizes, 1, i))
        IN  /\ Sum(open_node_sizes) = Len(writer)
            /\ Len(forest) = n
            /\ \A i \in 1..n :
                  /\ forest[i].lo = End(i - 1)
                  /\ forest[i].hi = End(i)
                  /\ open_node_sizes[i] = TrailerAt(writer, End(i)) + TREE_SIZE_SIZE

\* a leaf and a node with one child are open: two runs of different lengths
C16_Witness ==
    /\ call.result = "Ok"
    /\ Len(open_node_sizes) = 2
    /\ open_node_sizes[1] < open_node_sizes[2]
    /\ open_node_sizes[1] + open_node_sizes[2] = Len(writer)

(* C17: view length matches trailer.  In a buffer that successful           *)
(* post-order write_node calls produced and that leaves exactly one entry   *)
(* on the open-size stack, the whole buffer and every child view reachable  *)
(* through read_node and Branches is as long as the trailer in its own      *)
(* last 8 bytes says, plus 8.                                               *)
C17_ViewLength ==
    (~tree.none /\ Len(open_node_sizes) = 1) =>
        /\ \A s \in Views(tree.some, as_tree_slice(tree.some)) :
              LenOf(s) = TrailerAt(tree.some, s.hi) + TREE_SIZE_SIZE
        /\ ~slice.none => slice.some \in Views(tree.some, as_tree_slice(tree.some))
        /\ ~item.none => item.some \in Views(tree.some, as_tree_slice(tree.some))

\* a reader holds the view of a grandchild of the root
C17_Witness ==
    /\ ~tree.none /\ Len(open_node_sizes) = 1
    /\ Cardinality(Views(tree.some, as_tree_slice(tree.some))) = 3
    /\ ~slice.none /\ ~item.none
    /\ LenOf(slice.some) = TrailerAt(tree.some, slice.some.hi) + TREE_SIZE_SIZE
    /\ LenOf(item.some) < LenOf(slice.some)
    /\ LenOf(slice.some) < Len(tree.some)

(* C18: unattached subtrees are read as children.  read_node derives the    *)
(* children region from the length of the view, never from the view's own   *)
(* trailer: when a builder run ends with m >= 2 entries on the open-size    *)
(* stack, read_node on the whole buffer returns the value of the node       *)
(* written last, and its iterator yields that node's own children and then  *)
(* the other m - 1 unattached subtrees, each as a child view, in reverse    *)
(* write order.                                                             *)
C18_UnattachedSubtrees ==
    (~tree.none /\ Len(open_node_sizes) >= 2) =>
        LET m == Len(forest)
            last == forest[m]
            rn == read_node(tree.some, as_tree_slice(tree.some))
        IN  /\ m = Len(open_node_sizes)
            /\ ~rn.panic
            /\ rn.value = last.value
            /\ rn.branches = Range(0, Len(tree.some) - TREE_SIZE_SIZE
                                        - Len(write_value(codec, last.value)))
            /\ Collect(tree.some, rn.branches)
                 = Reverse([i \in 1..Len(last.children) |-> Extent(last.children[i])])
                   \o Reverse([i \in 1..(m - 1) |-> Extent(forest[i])])
            /\ \A r \in DOMAIN branches :
                  origin[r] = Some(as_tree_slice(tree.some)) =>
                      /\ value = Some(last.value) \/ slice # origin[r]
                      /\ yielded[r] = SubSeq(Collect(tree.some, rn.branches),
                                             1, Len(yielded[r]))

\* a leaf and a node with one child were left open: the reader of the whole buffer
\* has been given the node's child and then the leaf
C18_Witness ==
    /\ ~tree.none
    /\ Len(forest) = 2
    /\ Len(forest[2].children) = 1
    /\ \E r \in DOMAIN branches :
          /\ origin[r] = Some(as_tree_slice(tree.some))
          /\ yielded[r] = <<Extent(forest[2].children[1]), Extent(forest[1])>>
    /\ item = Some(Extent(forest[1]))

(* C19: progress on any input.  On any non-empty children region, written   *)
(* by the builder or not, a next call that returns a child leaves a region  *)
(* strictly shorter than the one it was called on, so that the iteration    *)
(* of any byte buffer ends after finitely many next calls, with None or     *)
(* with a panic.                                                            *)
C19_Progress ==
    [][(BranchesNext /\ reader' = "ok" /\ ~item'.none) =>
          \A r \in DOMAIN branches :
              (~branches[r].none /\ item' = next(tree.some, branches[r].some).item) =>
                  LenOf(branches'[r].some) < LenOf(branches[r].some)]_vars

=============================================================================
